---- MODULE Spec2Model ----
(***************************************************************************)
(* Model of train.py, the training driver of the retrieval-augmented       *)
(* captioning model: get_model_and_auxiliaries, get_data and main.         *)
(*                                                                         *)
(* Python strings that the code searches, formats or joins are sequences   *)
(* of one-character strings, so that `in`, str.format and os.path.join are *)
(* computed the way Python computes them.  Floats are the multiples of     *)
(* 0.25 and are held as their number of quarters (7.0 is 28, 1.75 is 7).   *)
(***************************************************************************)
EXTENDS Integers, Sequences, FiniteSets, TLC

VARIABLES
    pc,                             \* the statement of main that runs next
    err,                            \* the exception that ended the run, or "none"
    args,                           \* the parsed command line
    registered,                     \* names registered with AutoConfig
    cross_attention_reduce_factor,  \* local of get_model_and_auxiliaries
    tokenizer,                      \* pad_token and eos_token of the tokenizer
    config,                         \* model.config
    enc_requires_grad,              \* requires_grad of model.encoder.parameters()
    dec_requires_grad,              \* requires_grad of model.decoder.named_parameters()
    load_config,                    \* model.config as from_encoder_decoder_pretrained left it
    load_enc,                       \* encoder flags as loading left them
    load_dec,                       \* decoder flags as loading left them
    train_dataset,                  \* the dataset get_data built
    output_dir,                     \* local of main
    training_args,                  \* Seq2SeqTrainingArguments
    trainer,                        \* Seq2SeqTrainer
    train_calls                     \* number of calls of trainer.train()

vars == <<pc, err, args, registered, cross_attention_reduce_factor, tokenizer,
          config, enc_requires_grad, dec_requires_grad, load_config, load_enc,
          load_dec, train_dataset, output_dir, training_args, trainer, train_calls>>

----------------------------------------------------------------------------
(* Bounds of the model *)

\* number of parameters of the encoder
NumEncParams == 2
\* args.k and the k of a loaded configuration range over 0..MaxK
MaxK == 1

----------------------------------------------------------------------------
(* Python string operations *)

\* sub in s
Contains(sub, s) ==
    \E i \in 0..(Len(s) - Len(sub)) : SubSeq(s, i + 1, i + Len(sub)) = sub

\* s.startswith(p)
StartsWith(s, p) == Len(p) <= Len(s) /\ SubSeq(s, 1, Len(p)) = p

\* os.path.join(a, b) of posixpath
PathJoin(a, b) ==
    IF StartsWith(b, <<"/">>) THEN b
    ELSE IF a = <<>> \/ a[Len(a)] = "/" THEN a \o b
    ELSE a \o <<"/">> \o b

Digit(d) == <<"0", "1", "2", "3", "4", "5", "6", "7", "8", "9">>[d + 1]

RECURSIVE StrInt(_)
\* str(n) of a non-negative int
StrInt(n) == IF n < 10 THEN <<Digit(n)>> ELSE StrInt(n \div 10) \o <<Digit(n % 10)>>

\* str(x) of the non-negative float x = q / 4
StrFloat(q) ==
    StrInt(q \div 4) \o <<".">> \o
        CASE q % 4 = 0 -> <<"0">>
          [] q % 4 = 1 -> <<"2","5">>
          [] q % 4 = 2 -> <<"5">>
          [] q % 4 = 3 -> <<"7","5">>

\* '{}'.format(args.attention_size): the default 7 is an int that argparse
\* does not convert, a value given on the command line is a float
StrAttentionSize(a) == IF a.is_int THEN StrInt(a.q \div 4) ELSE StrFloat(a.q)

----------------------------------------------------------------------------
(* Constants of train.py *)

\* a variant with the factors of 7 and 3.5 exchanged
PARAMS2REDUCE_FACTOR_Exchanged ==
    (4 * 28 :> 1) @@ (4 * 14 :> 2) @@ (4 * 7 :> 8) @@ (14 :> 4) @@ (7 :> 16)

\* keys in quarters: 28, 14, 7, 3.5, 1.75
PARAMS2REDUCE_FACTOR ==
    (4 * 28 :> 1) @@ (4 * 14 :> 2) @@ (4 * 7 :> 4) @@ (14 :> 8) @@ (7 :> 16)
PAD_TOKEN == "!"
EOS_TOKEN == "."
CAPTION_LENGTH == 25

----------------------------------------------------------------------------
(* The command line *)

DefaultAttentionSize == [q |-> 4 * 7, is_int |-> TRUE]
\* 10.0 is a float that is not a key of PARAMS2REDUCE_FACTOR
AttentionSizes ==
    {DefaultAttentionSize} \cup
    {[q |-> x, is_int |-> FALSE] : x \in {4 * 28, 4 * 14, 4 * 7, 14, 7, 4 * 10}}

DecoderNames == {<<"g","p","t","2">>, <<"f","a","c","e","b","o","o","k","/","x","g","l","m","-","5","6","4","M">>, <<"f","a","c","e","b","o","o","k","/","o","p","t","-","3","5","0","m">>}
\* the directories and the retrieval encoder of a command line: the defaults
\* of the parser, or values given with the options
Defaults ==
    [features_dir |-> <<"/","k","a","g","g","l","e","/","w","o","r","k","i","n","g","/","f","e","a","t","u","r","e","s","/">>,
     experiments_dir |-> <<"/","k","a","g","g","l","e","/","w","o","r","k","i","n","g","/">>,
     retrieval_encoder |-> "RN50x64"]
Given ==
    [features_dir |-> <<"/","d","a","t","a","/","f","e","a","t","s">>,
     experiments_dir |-> <<"/","t","m","p","/","e","x","p","/">>,
     retrieval_encoder |-> "ViT-B/32"]

ArgSpace ==
    {[features_dir |-> o.features_dir,
      experiments_dir |-> o.experiments_dir,
      decoder_name |-> d,
      attention_size |-> s,
      train_decoder |-> t,
      disable_rag |-> r,
      k |-> k,
      retrieval_encoder |-> o.retrieval_encoder,
      template_path |-> "/kaggle/working/smallcap/src/template.txt",
      n_epochs |-> 10,
      ablation_visual |-> v] :
        o \in {Defaults, Given}, d \in DecoderNames, s \in AttentionSizes,
        t \in BOOLEAN, r \in BOOLEAN, k \in 0..MaxK, v \in BOOLEAN}

----------------------------------------------------------------------------
(* The pretrained model as from_encoder_decoder_pretrained returns it *)

EncParams == 1..NumEncParams

\* names that named_parameters() of the decoder yields
DecParamNames ==
    {<<"h",".","0",".","a","t","t","n",".","c","_","a","t","t","n",".","w","e","i","g","h","t">>,
     <<"h",".","0",".","c","r","o","s","s","a","t","t","e","n","t","i","o","n",".","c","_","a","t","t","n",".","w","e","i","g","h","t">>,
     <<"l","a","y","e","r","s",".","0",".","e","n","c","o","d","e","r","_","a","t","t","n",".","q","_","p","r","o","j",".","w","e","i","g","h","t">>}

\* the configuration a checkpoint can carry
LoadConfigs ==
    {[k |-> 0, retrieval_encoder |-> "", max_length |-> 20, rag |-> FALSE],
     [k |-> MaxK, retrieval_encoder |-> "RN50x64", max_length |-> CAPTION_LENGTH,
      rag |-> TRUE]}

NoConfig == [k |-> 0, retrieval_encoder |-> "", max_length |-> 0, rag |-> FALSE]
NoDataset == [cls |-> "None"]
NoTrainingArgs == [output_dir |-> <<>>, num_train_epochs |-> 0]
NoTrainer == [train_dataset |-> NoDataset, args |-> NoTrainingArgs]

----------------------------------------------------------------------------
Init ==
    /\ pc = "start"
    /\ err = "none"
    /\ args \in ArgSpace
    /\ registered = {}
    /\ cross_attention_reduce_factor = 0
    /\ tokenizer = [pad_token |-> "", eos_token |-> ""]
    /\ config = NoConfig
    /\ enc_requires_grad = <<>>
    /\ dec_requires_grad = <<>>
    /\ load_config = NoConfig
    /\ load_enc = <<>>
    /\ load_dec = <<>>
    /\ train_dataset = NoDataset
    /\ output_dir = <<>>
    /\ training_args = NoTrainingArgs
    /\ trainer = NoTrainer
    /\ train_calls = 0

----------------------------------------------------------------------------
(* get_model_and_auxiliaries *)

\* lines 25-39: the names registered with AutoConfig
Registrations(decoder_name) ==
    (IF Contains(<<"x","g","l","m">>, decoder_name) THEN {"this_xglm"}
     ELSE IF Contains(<<"o","p","t">>, decoder_name) THEN {"this_opt"}
     ELSE {"this_gpt2"}) \cup {"smallcap"}

\* lines 25-41, the key is in the table
LookupReduceFactor ==
    /\ pc = "start"
    /\ args.attention_size.q \in DOMAIN PARAMS2REDUCE_FACTOR
    /\ registered' = Registrations(args.decoder_name)
    /\ cross_attention_reduce_factor' = PARAMS2REDUCE_FACTOR[args.attention_size.q]
    /\ pc' = "lookup_done"
    /\ UNCHANGED <<err, args, tokenizer, config, enc_requires_grad, dec_requires_grad,
                   load_config, load_enc, load_dec, train_dataset, output_dir,
                   training_args, trainer, train_calls>>

\* lines 25-41, the key is not in the table: KeyError leaves main
LookupKeyError ==
    /\ pc = "start"
    /\ args.attention_size.q \notin DOMAIN PARAMS2REDUCE_FACTOR
    /\ registered' = Registrations(args.decoder_name)
    /\ err' = "KeyError"
    /\ pc' = "exit"
    /\ UNCHANGED <<args, cross_attention_reduce_factor, tokenizer, config,
                   enc_requires_grad, dec_requires_grad, load_config, load_enc,
                   load_dec, train_dataset, output_dir, training_args, trainer,
                   train_calls>>

\* lines 43-53: the tokenizer and the model are loaded
LoadPretrained ==
    /\ pc = "lookup_done"
    /\ tokenizer' = [pad_token |-> PAD_TOKEN, eos_token |-> EOS_TOKEN]
    /\ \E c \in LoadConfigs, e \in [EncParams -> BOOLEAN],
          d \in [DecParamNames -> BOOLEAN] :
            /\ config' = c
            /\ enc_requires_grad' = e
            /\ dec_requires_grad' = d
            /\ load_config' = c
            /\ load_enc' = e
            /\ load_dec' = d
    /\ pc' = "loaded"
    /\ UNCHANGED <<err, args, registered, cross_attention_reduce_factor,
                   train_dataset, output_dir, training_args, trainer, train_calls>>

\* lines 43-49: a from_pretrained call raises
LoadFails ==
    /\ pc = "lookup_done"
    /\ err' = "OSError"
    /\ pc' = "exit"
    /\ UNCHANGED <<args, registered, cross_attention_reduce_factor, tokenizer, config,
                   enc_requires_grad, dec_requires_grad, load_config, load_enc,
                   load_dec, train_dataset, output_dir, training_args, trainer,
                   train_calls>>

\* a variant that stores k and the retrieval encoder whatever disable_rag is
RagConfigAlways(c, a) ==
    [c EXCEPT !.k = a.k,
              !.retrieval_encoder = a.retrieval_encoder,
              !.max_length = CAPTION_LENGTH,
              !.rag = ~a.disable_rag]

\* lines 55-59
RagConfig(c, a) ==
    [c EXCEPT !.k = IF ~a.disable_rag THEN a.k ELSE @,
              !.retrieval_encoder = IF ~a.disable_rag THEN a.retrieval_encoder ELSE @,
              !.max_length = CAPTION_LENGTH,
              !.rag = ~a.disable_rag]

ConfigureRag ==
    /\ pc = "loaded"
    /\ config' = RagConfig(config, args)
    /\ pc' = "configured"
    /\ UNCHANGED <<err, args, registered, cross_attention_reduce_factor, tokenizer,
                   enc_requires_grad, dec_requires_grad, load_config, load_enc,
                   load_dec, train_dataset, output_dir, training_args, trainer,
                   train_calls>>

\* lines 61-62
FrozenEncoder(flags) == [p \in DOMAIN flags |-> FALSE]

\* a variant that keeps the encoder trainable under --train_decoder
FreezeEncoderUnlessTrainDecoder ==
    /\ pc = "configured"
    /\ enc_requires_grad' =
           IF args.train_decoder THEN enc_requires_grad
           ELSE FrozenEncoder(enc_requires_grad)
    /\ pc' = "encoder_frozen"
    /\ UNCHANGED <<err, args, registered, cross_attention_reduce_factor, tokenizer,
                   config, dec_requires_grad, load_config, load_enc, load_dec,
                   train_dataset, output_dir, training_args, trainer, train_calls>>

FreezeEncoder ==
    /\ pc = "configured"
    /\ enc_requires_grad' = FrozenEncoder(enc_requires_grad)
    /\ pc' = "encoder_frozen"
    /\ UNCHANGED <<err, args, registered, cross_attention_reduce_factor, tokenizer,
                   config, dec_requires_grad, load_config, load_enc, load_dec,
                   train_dataset, output_dir, training_args, trainer, train_calls>>

\* a variant that tests 'crossattention' for every decoder family
FrozenDecoderOneMarker(flags, a) ==
    IF ~a.train_decoder
    THEN [name \in DOMAIN flags |->
            IF ~Contains(<<"c","r","o","s","s","a","t","t","e","n","t","i","o","n">>, name) THEN FALSE ELSE flags[name]]
    ELSE flags

\* a variant that enables every decoder parameter under --train_decoder
FrozenDecoderEnabling(flags, a) ==
    IF ~a.train_decoder
    THEN [name \in DOMAIN flags |->
            IF Contains(<<"x","g","l","m">>, a.decoder_name) \/ Contains(<<"o","p","t">>, a.decoder_name)
            THEN (IF ~Contains(<<"e","n","c","o","d","e","r","_","a","t","t","n">>, name) THEN FALSE ELSE flags[name])
            ELSE (IF ~Contains(<<"c","r","o","s","s","a","t","t","e","n","t","i","o","n">>, name) THEN FALSE ELSE flags[name])]
    ELSE [name \in DOMAIN flags |-> TRUE]

\* lines 64-73
FrozenDecoder(flags, a) ==
    IF Contains(<<"x","g","l","m">>, a.decoder_name) \/ Contains(<<"o","p","t">>, a.decoder_name)
    THEN IF ~a.train_decoder
         THEN [name \in DOMAIN flags |->
                 IF ~Contains(<<"e","n","c","o","d","e","r","_","a","t","t","n">>, name) THEN FALSE ELSE flags[name]]
         ELSE flags
    ELSE IF ~a.train_decoder
         THEN [name \in DOMAIN flags |->
                 IF ~Contains(<<"c","r","o","s","s","a","t","t","e","n","t","i","o","n">>, name) THEN FALSE ELSE flags[name]]
         ELSE flags

\* lines 64-79: the decoder is frozen and the model returned
FreezeDecoder ==
    /\ pc = "encoder_frozen"
    /\ dec_requires_grad' = FrozenDecoder(dec_requires_grad, args)
    /\ pc' = "model_ready"
    /\ UNCHANGED <<err, args, registered, cross_attention_reduce_factor, tokenizer,
                   config, enc_requires_grad, load_config, load_enc, load_dec,
                   train_dataset, output_dir, training_args, trainer, train_calls>>

----------------------------------------------------------------------------
(* get_data *)

\* a variant that passes k only when retrieval is enabled
DatasetKOnlyWithRag(max_length, a) ==
    [cls |-> IF a.ablation_visual THEN "AblationFeaturesDataset" ELSE "TrainDataset",
     features_path |-> PathJoin(a.features_dir, <<"t","r","a","i","n",".","h","d","f","5">>),
     rag |-> ~a.disable_rag,
     template_path |-> a.template_path,
     k |-> IF a.disable_rag THEN 0 ELSE a.k,
     max_caption_length |-> max_length]

\* lines 85-104
Dataset(max_length, a) ==
    [cls |-> IF a.ablation_visual THEN "AblationFeaturesDataset" ELSE "TrainDataset",
     features_path |-> PathJoin(a.features_dir, <<"t","r","a","i","n",".","h","d","f","5">>),
     rag |-> ~a.disable_rag,
     template_path |-> a.template_path,
     k |-> a.k,
     max_caption_length |-> max_length]

\* line 108
GetData ==
    /\ pc = "model_ready"
    /\ train_dataset' = Dataset(config.max_length, args)
    /\ pc' = "data_ready"
    /\ UNCHANGED <<err, args, registered, cross_attention_reduce_factor, tokenizer,
                   config, enc_requires_grad, dec_requires_grad, load_config, load_enc,
                   load_dec, output_dir, training_args, trainer, train_calls>>

\* line 82: load_data_for_training raises
GetDataFails ==
    /\ pc = "model_ready"
    /\ err' = "FileNotFoundError"
    /\ pc' = "exit"
    /\ UNCHANGED <<args, registered, cross_attention_reduce_factor, tokenizer, config,
                   enc_requires_grad, dec_requires_grad, load_config, load_enc,
                   load_dec, train_dataset, output_dir, training_args, trainer,
                   train_calls>>

----------------------------------------------------------------------------
(* main *)

\* lines 110-116
OutputDir(a) ==
    LET model_type == IF a.disable_rag THEN <<"n","o","r","a","g">> ELSE <<"r","a","g">>
        name == model_type \o <<"_">> \o StrAttentionSize(a.attention_size) \o <<"M","_">>
                    \o a.decoder_name
                    \o (IF a.ablation_visual THEN <<"_","a","b","l","a","t","i","o","n">> ELSE <<>>)
    IN  PathJoin(<<"/","k","a","g","g","l","e","/","w","o","r","k","i","n","g","/">>, name)

BuildOutputDir ==
    /\ pc = "data_ready"
    /\ output_dir' = OutputDir(args)
    /\ pc' = "output_dir_set"
    /\ UNCHANGED <<err, args, registered, cross_attention_reduce_factor, tokenizer,
                   config, enc_requires_grad, dec_requires_grad, load_config, load_enc,
                   load_dec, train_dataset, training_args, trainer, train_calls>>

\* lines 118-129
BuildTrainingArgs ==
    /\ pc = "output_dir_set"
    /\ training_args' = [output_dir |-> output_dir, num_train_epochs |-> args.n_epochs]
    /\ pc' = "training_args_set"
    /\ UNCHANGED <<err, args, registered, cross_attention_reduce_factor, tokenizer,
                   config, enc_requires_grad, dec_requires_grad, load_config, load_enc,
                   load_dec, train_dataset, output_dir, trainer, train_calls>>

\* lines 118-129: Seq2SeqTrainingArguments raises (fp16 without a device for it)
BuildTrainingArgsFails ==
    /\ pc = "output_dir_set"
    /\ err' = "ValueError"
    /\ pc' = "exit"
    /\ UNCHANGED <<args, registered, cross_attention_reduce_factor, tokenizer, config,
                   enc_requires_grad, dec_requires_grad, load_config, load_enc,
                   load_dec, train_dataset, output_dir, training_args, trainer,
                   train_calls>>

\* lines 131-137
BuildTrainer ==
    /\ pc = "training_args_set"
    /\ trainer' = [train_dataset |-> train_dataset, args |-> training_args]
    /\ pc' = "trainer_set"
    /\ UNCHANGED <<err, args, registered, cross_attention_reduce_factor, tokenizer,
                   config, enc_requires_grad, dec_requires_grad, load_config, load_enc,
                   load_dec, train_dataset, output_dir, training_args, train_calls>>

\* a variant that trains as soon as the model is returned
TrainBeforeData ==
    /\ pc \in {"model_ready", "trainer_set"}
    /\ train_calls' = train_calls + 1
    /\ \E raised \in BOOLEAN : err' = IF raised THEN "RuntimeError" ELSE err
    /\ pc' = "exit"
    /\ UNCHANGED <<args, registered, cross_attention_reduce_factor, tokenizer, config,
                   enc_requires_grad, dec_requires_grad, load_config, load_enc,
                   load_dec, train_dataset, output_dir, training_args, trainer>>

\* line 139: train() returns or raises; main ends either way
Train ==
    /\ pc = "trainer_set"
    /\ train_calls' = train_calls + 1
    /\ \E raised \in BOOLEAN : err' = IF raised THEN "RuntimeError" ELSE err
    /\ pc' = "exit"
    /\ UNCHANGED <<args, registered, cross_attention_reduce_factor, tokenizer, config,
                   enc_requires_grad, dec_requires_grad, load_config, load_enc,
                   load_dec, train_dataset, output_dir, training_args, trainer>>

Next ==
    \/ LookupReduceFactor
    \/ LookupKeyError
    \/ LoadPretrained
    \/ LoadFails
    \/ ConfigureRag
    \/ FreezeEncoder
    \/ FreezeDecoder
    \/ GetData
    \/ GetDataFails
    \/ BuildOutputDir
    \/ BuildTrainingArgs
    \/ BuildTrainingArgsFails
    \/ BuildTrainer
    \/ Train

Spec == Init /\ [][Next]_vars

----------------------------------------------------------------------------
(* Properties *)

\* get_model_and_auxiliaries has returned
ModelReturned ==
    \/ pc \in {"model_ready", "data_ready", "output_dir_set", "training_args_set",
               "trainer_set"}
    \/ pc = "exit" /\ err \notin {"KeyError", "OSError"}

\* C1: once get_model_and_auxiliaries has returned, every encoder parameter
\* has requires_grad = False, whatever decoder_name, train_decoder and
\* disable_rag are.
C1_EncoderFrozen ==
    ModelReturned =>
        /\ DOMAIN enc_requires_grad = EncParams
        /\ \A p \in EncParams : enc_requires_grad[p] = FALSE

C1_Witness ==
    /\ pc = "model_ready"
    /\ args.train_decoder
    /\ \A p \in EncParams : load_enc[p]

\* the marker the claims name for a decoder
CrossAttentionMarker(decoder_name) ==
    IF Contains(<<"x","g","l","m">>, decoder_name) \/ Contains(<<"o","p","t">>, decoder_name)
    THEN <<"e","n","c","o","d","e","r","_","a","t","t","n">>
    ELSE <<"c","r","o","s","s","a","t","t","e","n","t","i","o","n">>

\* C2: without train_decoder, after get_model_and_auxiliaries every decoder
\* parameter whose name lacks the cross-attention marker is frozen and every
\* one whose name has it keeps its load-time flag; the marker is
\* 'encoder_attn' for xglm and opt decoders and 'crossattention' otherwise.
C2_OnlyCrossAttentionTrainable ==
    (ModelReturned /\ ~args.train_decoder) =>
        /\ DOMAIN dec_requires_grad = DecParamNames
        /\ \A name \in DecParamNames :
              dec_requires_grad[name] =
                  IF Contains(CrossAttentionMarker(args.decoder_name), name)
                  THEN load_dec[name]
                  ELSE FALSE

C2_Witness ==
    /\ pc = "model_ready"
    /\ ~args.train_decoder
    /\ Contains(<<"o","p","t">>, args.decoder_name)
    /\ \A name \in DecParamNames : load_dec[name]
    /\ \E name \in DecParamNames : dec_requires_grad[name]
    /\ \E name \in DecParamNames :
          Contains(<<"c","r","o","s","s","a","t","t","e","n","t","i","o","n">>, name) /\ ~dec_requires_grad[name]

\* C3: with train_decoder every decoder parameter keeps its load-time flag,
\* and no parameter is ever trainable that was not trainable after loading.
C3_TrainDecoderKeepsFlags ==
    /\ (ModelReturned /\ args.train_decoder) =>
           /\ DOMAIN dec_requires_grad = DecParamNames
           /\ dec_requires_grad = load_dec
    /\ \A p \in DOMAIN enc_requires_grad : enc_requires_grad[p] => load_enc[p]
    /\ \A name \in DOMAIN dec_requires_grad : dec_requires_grad[name] => load_dec[name]

C3_Witness ==
    /\ pc = "model_ready"
    /\ args.train_decoder
    /\ Contains(<<"x","g","l","m">>, args.decoder_name)
    /\ \E name \in DecParamNames : load_dec[name] /\ dec_requires_grad[name]
    /\ \E name \in DecParamNames : ~load_dec[name] /\ ~dec_requires_grad[name]

\* path lies under the directory dir
Under(path, dir) ==
    StartsWith(path, IF dir # <<>> /\ dir[Len(dir)] = "/" THEN dir ELSE dir \o <<"/">>)

\* C4: the output_dir given to the training arguments lies under
\* args.experiments_dir.
C4_OutputDirUnderExperimentsDir ==
    pc \in {"training_args_set", "trainer_set"} =>
        Under(training_args.output_dir, args.experiments_dir)

\* the configuration has been set up (lines 55-59 have run)
Configured ==
    \/ pc \in {"configured", "encoder_frozen"}
    \/ ModelReturned

\* C5: model.config.rag is (not disable_rag) and model.config.max_length is
\* 25; k and retrieval_encoder come from args when disable_rag is false and
\* are what loading left when disable_rag is true.
C5_RagConfigured ==
    Configured =>
        /\ config.rag = ~args.disable_rag
        /\ config.max_length = 25
        /\ ~args.disable_rag =>
              /\ config.k = args.k
              /\ config.retrieval_encoder = args.retrieval_encoder
        /\ args.disable_rag =>
              /\ config.k = load_config.k
              /\ config.retrieval_encoder = load_config.retrieval_encoder

C5_Witness ==
    /\ pc = "configured"
    /\ args.disable_rag
    /\ config.k # args.k
    /\ config.retrieval_encoder # args.retrieval_encoder
    /\ load_config.rag
    /\ ~config.rag

\* C6: the reduce factor is the table's entry for attention_size: size times
\* factor is 28, the factor is a power of two, a smaller size has a strictly
\* larger factor, five sizes are accepted and the default 7 yields 4.
C6_ReduceFactor ==
    /\ DOMAIN PARAMS2REDUCE_FACTOR = {4 * 28, 4 * 14, 4 * 7, 14, 7}
    /\ \A a, b \in DOMAIN PARAMS2REDUCE_FACTOR :
          a < b => PARAMS2REDUCE_FACTOR[a] > PARAMS2REDUCE_FACTOR[b]
    /\ (pc # "start" /\ err # "KeyError") =>
          /\ args.attention_size.q * cross_attention_reduce_factor = 4 * 28
          /\ \E e \in 0..4 : cross_attention_reduce_factor = 2 ^ e
          /\ args.attention_size = DefaultAttentionSize =>
                cross_attention_reduce_factor = 4

C6_Witness ==
    /\ pc = "lookup_done"
    /\ args.attention_size.q = 14
    /\ cross_attention_reduce_factor = 8

\* C7: the dataset is AblationFeaturesDataset exactly when ablation_visual
\* is set and TrainDataset otherwise; either gets rag = not disable_rag (the
\* value of model.config.rag), k = args.k also without retrieval,
\* features_dir joined with 'train.hdf5' and model.config.max_length (25).
C7_Dataset ==
    train_dataset # NoDataset =>
        /\ train_dataset.cls =
              (IF args.ablation_visual THEN "AblationFeaturesDataset" ELSE "TrainDataset")
        /\ train_dataset.rag = ~args.disable_rag
        /\ train_dataset.rag = config.rag
        /\ train_dataset.k = args.k
        /\ train_dataset.features_path =
              (IF args.features_dir[Len(args.features_dir)] = "/"
               THEN args.features_dir \o <<"t","r","a","i","n",".","h","d","f","5">>
               ELSE args.features_dir \o <<"/","t","r","a","i","n",".","h","d","f","5">>)
        /\ train_dataset.max_caption_length = config.max_length
        /\ train_dataset.max_caption_length = 25

C7_Witness ==
    /\ pc = "data_ready"
    /\ args.ablation_visual
    /\ args.disable_rag
    /\ train_dataset.cls = "AblationFeaturesDataset"
    /\ train_dataset.k > 0
    /\ args.features_dir[Len(args.features_dir)] # "/"

\* what holds of a run in which train() has been called
TrainedState ==
    /\ train_calls <= 1
    /\ err \in {"KeyError", "OSError", "FileNotFoundError", "ValueError"} =>
          train_calls = 0
    /\ train_calls = 1 =>
          /\ pc = "exit"
          /\ \A p \in EncParams : ~enc_requires_grad[p]
          /\ dec_requires_grad = FrozenDecoder(load_dec, args)
          /\ train_dataset # NoDataset
          /\ train_dataset.max_caption_length = config.max_length
          /\ training_args # NoTrainingArgs
          /\ trainer = [train_dataset |-> train_dataset, args |-> training_args]

\* what holds of every step of main
TrainedStep ==
    /\ train_calls' # train_calls => (pc = "trainer_set" /\ pc' = "exit")
    /\ pc = "exit" => pc' = "exit"
    /\ ModelReturned =>
          /\ enc_requires_grad' = enc_requires_grad
          /\ dec_requires_grad' = dec_requires_grad

\* C8: train() is called at most once, as the last step, after the model is
\* loaded and frozen, the dataset built with the model's max_length and the
\* training arguments built; main changes no requires_grad flag once
\* get_model_and_auxiliaries has returned; a failed step means no training.
C8_TrainLast == [](TrainedState) /\ [][TrainedStep]_vars

C8_Witness ==
    /\ pc = "exit"
    /\ train_calls = 1
    /\ err = "none"
    /\ args.train_decoder
    /\ \E name \in DecParamNames : dec_requires_grad[name]

====
